---- MODULE Spec2Model ----
(***************************************************************************)
(* Model of the MaskedCustomers data transformer (src/transformer.py).     *)
(*                                                                         *)
(* Character strings are sequences of one-character strings.  The SQL the  *)
(* transformer generates is kept as an expression tree whose nodes are the *)
(* SQL operators written in the source text (CASE, IS NOT NULL, LIKE, +,   *)
(* ||, RIGHT, LEFT, SUBSTRING, LEN, LENGTH, CHARINDEX, SPLIT_PART); Eval   *)
(* gives each node the value its database engine computes for a row.       *)
(***************************************************************************)
EXTENDS Integers, Sequences, FiniteSets, Bags, TLC

VARIABLES
    \* one invocation after another of executeTransformer(conn, context)
    pc,                        \* where the invocation stands
    runs,                      \* invocations started so far
    conn,                      \* the caller's connection
    context,                   \* the DataTransformerContext: the resolved table names
    database,                  \* table name -> bag of rows
    sourceCustomerTableName,   \* locals of executeTransformer
    outputCustomerTableName,
    db_type,
    insert_query,
    result,                    \* how the last invocation ended
    \* function harness
    call,          \* the call under study (function and arguments)
    ret,           \* the value the function returned
    out,           \* the value the engine computes from ret
    \* invocations of executeTransformer running at the same time
    inv            \* invocation -> its connection, context, locals and position

fnvars == <<call, ret, out>>
tvars == <<pc, runs, conn, context, database, sourceCustomerTableName,
           outputCustomerTableName, db_type, insert_query, result>>
vars == <<tvars, fnvars, inv>>

----------------------------------------------------------------------------
(* Bounds *)

MaxLen == 5        \* longest column value tried
MaxNameLen == 3    \* longest identifier tried by the quoting functions
MaxTokens == 2     \* dialect names are built from at most this many tokens

----------------------------------------------------------------------------
(* Strings *)

Min(a, b) == IF a < b THEN a ELSE b
Max(a, b) == IF a > b THEN a ELSE b

SeqsUpTo(S, n) == UNION {[1..k -> S] : k \in 0..n}

\* s[i..j], empty when the range is empty, clipped to the string
Slice(s, i, j) ==
    IF Max(i, 1) > Min(j, Len(s)) THEN <<>>
    ELSE SubSeq(s, Max(i, 1), Min(j, Len(s)))

LastN(s, n) == Slice(s, Len(s) - n + 1, Len(s))
FirstN(s, n) == Slice(s, 1, n)

\* 1-based position of the first occurrence of character c in s, 0 if none
IndexOf(c, s) ==
    IF \E i \in 1..Len(s) : s[i] = c
    THEN CHOOSE i \in 1..Len(s) : s[i] = c /\ \A j \in 1..(i - 1) : s[j] # c
    ELSE 0

Contains(s, sub) ==
    \E i \in 1..(Len(s) - Len(sub) + 1) : SubSeq(s, i, i + Len(sub) - 1) = sub

HasChar(s, c) == \E i \in 1..Len(s) : s[i] = c

Count(s, c) == Cardinality({i \in 1..Len(s) : s[i] = c})

RECURSIVE Flatten(_)
Flatten(ss) == IF ss = <<>> THEN <<>> ELSE Head(ss) \o Flatten(Tail(ss))

----------------------------------------------------------------------------
(* SQL values: a string, an integer, a truth value, NULL, or an error *)

StrV(s) == [t |-> "str", s |-> s]
IntV(n) == [t |-> "int", n |-> n]
BoolV(b) == [t |-> "bool", b |-> b]      \* b is "true", "false" or "unknown"
NullV == [t |-> "null"]
ErrV == [t |-> "error"]

IsNull(v) == v.t = "null"
IsErr(v) == v.t = "error"
IsStr(v) == v.t = "str"

----------------------------------------------------------------------------
(* What the database engines compute for the SQL operators the transformer *)
(* writes.  The string and number operators yield NULL for a NULL operand. *)

Strict(args) ==
    IF \E i \in 1..Len(args) : IsErr(args[i]) THEN ErrV
    ELSE IF \E i \in 1..Len(args) : IsNull(args[i]) THEN NullV
    ELSE BoolV("true")

\* x IS NOT NULL: never unknown
SqlIsNotNull(a) ==
    IF IsErr(a) THEN ErrV ELSE BoolV(IF IsNull(a) THEN "false" ELSE "true")

\* three-valued AND
SqlAnd(a, b) ==
    IF IsErr(a) \/ IsErr(b) THEN ErrV
    ELSE IF a = BoolV("false") \/ b = BoolV("false") THEN BoolV("false")
    ELSE IF a = BoolV("true") /\ b = BoolV("true") THEN BoolV("true")
    ELSE BoolV("unknown")

\* x > y on numbers: unknown when an operand is NULL
SqlGt(a, b) ==
    IF IsErr(a) \/ IsErr(b) THEN ErrV
    ELSE IF IsNull(a) \/ IsNull(b) THEN BoolV("unknown")
    ELSE BoolV(IF a.n > b.n THEN "true" ELSE "false")

\* s LIKE p with the wildcards % (any run of characters) and _ (one character)
RECURSIVE LikeMatch(_, _)
LikeMatch(s, p) ==
    IF p = <<>> THEN s = <<>>
    ELSE IF Head(p) = "%"
         THEN \E k \in 0..Len(s) : LikeMatch(SubSeq(s, k + 1, Len(s)), Tail(p))
         ELSE /\ s # <<>>
              /\ (Head(p) = "_" \/ Head(p) = Head(s))
              /\ LikeMatch(Tail(s), Tail(p))

SqlLike(a, p) ==
    IF IsErr(a) \/ IsErr(p) THEN ErrV
    ELSE IF IsNull(a) \/ IsNull(p) THEN BoolV("unknown")
    ELSE BoolV(IF LikeMatch(a.s, p.s) THEN "true" ELSE "false")

\* PostgreSQL a || b
PgConcat(a, b) ==
    IF Strict(<<a, b>>) # BoolV("true") THEN Strict(<<a, b>>)
    ELSE StrV(a.s \o b.s)

\* SQL Server a + b: concatenation of strings, addition of numbers
MsPlus(a, b) ==
    IF Strict(<<a, b>>) # BoolV("true") THEN Strict(<<a, b>>)
    ELSE IF a.t = "int" /\ b.t = "int" THEN IntV(a.n + b.n)
    ELSE IF a.t = "str" /\ b.t = "str" THEN StrV(a.s \o b.s)
    ELSE ErrV

\* a - b on numbers
SqlMinus(a, b) ==
    IF Strict(<<a, b>>) # BoolV("true") THEN Strict(<<a, b>>)
    ELSE IntV(a.n - b.n)

\* SQL Server RIGHT(s, n): the last n characters, the whole string if shorter
MsRight(a, n) ==
    IF Strict(<<a, n>>) # BoolV("true") THEN Strict(<<a, n>>)
    ELSE IF n.n < 0 THEN ErrV
    ELSE StrV(LastN(a.s, n.n))

\* SQL Server LEFT(s, n): the first n characters, the whole string if shorter
MsLeft(a, n) ==
    IF Strict(<<a, n>>) # BoolV("true") THEN Strict(<<a, n>>)
    ELSE IF n.n < 0 THEN ErrV
    ELSE StrV(FirstN(a.s, n.n))

\* SUBSTRING(s, start, count) in both engines: the characters at positions
\* start .. start+count-1 that exist; a negative count is an error
SqlSubstring3(a, start, cnt) ==
    IF Strict(<<a, start, cnt>>) # BoolV("true") THEN Strict(<<a, start, cnt>>)
    ELSE IF cnt.n < 0 THEN ErrV
    ELSE StrV(Slice(a.s, start.n, start.n + cnt.n - 1))

\* PostgreSQL SUBSTRING(s, start): from position start to the end; a start
\* below 1 begins at the first character
PgSubstring2(a, start) ==
    IF Strict(<<a, start>>) # BoolV("true") THEN Strict(<<a, start>>)
    ELSE StrV(Slice(a.s, start.n, Len(a.s)))

\* PostgreSQL LENGTH(s): the number of characters
PgLength(a) ==
    IF Strict(<<a>>) # BoolV("true") THEN Strict(<<a>>)
    ELSE IntV(Len(a.s))

RECURSIVE RTrim(_)
RTrim(s) ==
    IF s # <<>> /\ s[Len(s)] = " " THEN RTrim(SubSeq(s, 1, Len(s) - 1)) ELSE s

\* SQL Server LEN(s): the number of characters, trailing blanks excluded
MsLen(a) ==
    IF Strict(<<a>>) # BoolV("true") THEN Strict(<<a>>)
    ELSE IntV(Len(RTrim(a.s)))

\* SQL Server CHARINDEX(c, s): position of the first c in s, 0 if none
MsCharIndex(c, a) ==
    IF Strict(<<c, a>>) # BoolV("true") THEN Strict(<<c, a>>)
    ELSE IntV(IndexOf(c.s[1], a.s))

\* the fields of s separated by the character d
RECURSIVE Split(_, _)
Split(s, d) ==
    IF IndexOf(d, s) = 0 THEN <<s>>
    ELSE <<SubSeq(s, 1, IndexOf(d, s) - 1)>>
         \o Split(SubSeq(s, IndexOf(d, s) + 1, Len(s)), d)

\* PostgreSQL SPLIT_PART(s, d, n): the n-th field, '' when there are fewer
PgSplitPart(a, d, n) ==
    IF Strict(<<a, d, n>>) # BoolV("true") THEN Strict(<<a, d, n>>)
    ELSE IF n.n < 1 THEN ErrV
    ELSE IF n.n > Len(Split(a.s, d.s[1])) THEN StrV(<<>>)
    ELSE StrV(Split(a.s, d.s[1])[n.n])

----------------------------------------------------------------------------
(* SQL expression trees *)

Col(q) == [op |-> "col", q |-> q]          \* a quoted column reference
Lit(s) == [op |-> "lit", s |-> s]          \* a string literal '...'
Num(n) == [op |-> "num", n |-> n]          \* an integer literal
NullLit == [op |-> "NULL"]
Fn(op, args) == [op |-> op, args |-> args]
CaseWhen(c, a, b) == Fn("CASE", <<c, a, b>>)   \* CASE WHEN c THEN a ELSE b END

\* the column a quoted identifier names: the text between its delimiters
Unquote(q) == SubSeq(q, 2, Len(q) - 1)

Apply(op, v) ==
    CASE op = "IS NOT NULL" -> SqlIsNotNull(v[1])
      [] op = "AND"         -> SqlAnd(v[1], v[2])
      [] op = ">"           -> SqlGt(v[1], v[2])
      [] op = "LIKE"        -> SqlLike(v[1], v[2])
      [] op = "||"          -> PgConcat(v[1], v[2])
      [] op = "+"           -> MsPlus(v[1], v[2])
      [] op = "-"           -> SqlMinus(v[1], v[2])
      [] op = "RIGHT"       -> MsRight(v[1], v[2])
      [] op = "LEFT"        -> MsLeft(v[1], v[2])
      [] op = "SUBSTRING3"  -> SqlSubstring3(v[1], v[2], v[3])
      [] op = "SUBSTRING2"  -> PgSubstring2(v[1], v[2])
      [] op = "LENGTH"      -> PgLength(v[1])
      [] op = "LEN"         -> MsLen(v[1])
      [] op = "CHARINDEX"   -> MsCharIndex(v[1], v[2])
      [] op = "SPLIT_PART"  -> PgSplitPart(v[1], v[2], v[3])
      [] OTHER              -> ErrV

\* the value of expression e for a row (a function from column names to values)
RECURSIVE Eval(_, _)
Eval(e, row) ==
    CASE e.op = "col"  -> IF Unquote(e.q) \in DOMAIN row THEN row[Unquote(e.q)] ELSE ErrV
      [] e.op = "lit"  -> StrV(e.s)
      [] e.op = "num"  -> IntV(e.n)
      [] e.op = "NULL" -> NullV
      [] e.op = "CASE" ->
            LET c == Eval(e.args[1], row)
            IN  IF IsErr(c) THEN ErrV
                ELSE IF c = BoolV("true") THEN Eval(e.args[2], row)
                ELSE Eval(e.args[3], row)
      [] OTHER -> Apply(e.op, [i \in 1..Len(e.args) |-> Eval(e.args[i], row)])

----------------------------------------------------------------------------
(* Text constants of src/transformer.py *)

S_id == <<"i", "d">>
S_firstname == <<"f", "i", "r", "s", "t", "n", "a", "m", "e">>
S_lastname == <<"l", "a", "s", "t", "n", "a", "m", "e">>
S_dob == <<"d", "o", "b">>
S_email == <<"e", "m", "a", "i", "l">>
S_phone == <<"p", "h", "o", "n", "e">>
S_primaryaddressid == <<"p", "r", "i", "m", "a", "r", "y", "a", "d", "d", "r", "e", "s", "s", "i", "d">>
S_billingaddressid == <<"b", "i", "l", "l", "i", "n", "g", "a", "d", "d", "r", "e", "s", "s", "i", "d">>

S_postgresql == <<"p", "o", "s", "t", "g", "r", "e", "s", "q", "l">>
S_postgres == <<"p", "o", "s", "t", "g", "r", "e", "s">>
S_mssql == <<"m", "s", "s", "q", "l">>
S_sqlserver == <<"s", "q", "l", "s", "e", "r", "v", "e", "r">>

Stars == <<"*", "*", "*">>              \* '***'
PhoneStars == <<"*", "*", "*", "-", "*", "*", "*", "-">>    \* '***-***-'
StarsAt == <<"*", "*", "*", "@">>       \* '***@'
At == <<"@">>            \* '@'
LikeAt == <<"%", "%", "@", "%", "%">>        \* '%%@%%'

UpperChars == <<"A", "B", "C", "D", "E", "F", "G", "H", "I", "J", "K", "L", "M",
                "N", "O", "P", "Q", "R", "S", "T", "U", "V", "W", "X", "Y", "Z">>
LowerChars == <<"a", "b", "c", "d", "e", "f", "g", "h", "i", "j", "k", "l", "m",
                "n", "o", "p", "q", "r", "s", "t", "u", "v", "w", "x", "y", "z">>

\* str.lower()
Lower(s) ==
    [i \in 1..Len(s) |->
        IF \E k \in 1..26 : UpperChars[k] = s[i]
        THEN LowerChars[CHOOSE k \in 1..26 : UpperChars[k] = s[i]]
        ELSE s[i]]

----------------------------------------------------------------------------
(* The functions of src/transformer.py *)

\* get_database_type without the .lower(): a case-sensitive match
get_database_type_CaseSensitive(dialect_name) ==
    IF Contains(dialect_name, S_postgresql) \/ Contains(dialect_name, S_postgres)
    THEN "postgresql"
    ELSE IF Contains(dialect_name, S_mssql) \/ Contains(dialect_name, S_sqlserver)
    THEN "sqlserver"
    ELSE "postgresql"

\* get_database_type, as a function of conn.dialect.name
get_database_type(dialect_name) ==
    LET name == Lower(dialect_name)
    IN  IF Contains(name, S_postgresql) \/ Contains(name, S_postgres)
        THEN "postgresql"
        ELSE IF Contains(name, S_mssql) \/ Contains(name, S_sqlserver)
        THEN "sqlserver"
        ELSE "postgresql"

quote_field_name(field_name, dbt) ==
    IF dbt = "sqlserver"
    THEN <<"[">> \o field_name \o <<"]">>
    ELSE <<"\"">> \o field_name \o <<"\"">>

\* s with every occurrence of the character c doubled
RECURSIVE Doubled(_, _)
Doubled(s, c) ==
    IF s = <<>> THEN <<>>
    ELSE (IF Head(s) = c THEN <<c, c>> ELSE <<Head(s)>>) \o Doubled(Tail(s), c)

\* quote_table_name that escapes the closing delimiter inside the name
quote_table_name_Escaping(table_name, dbt) ==
    IF dbt = "sqlserver"
    THEN <<"[">> \o Doubled(table_name, "]") \o <<"]">>
    ELSE <<"\"">> \o Doubled(table_name, "\"") \o <<"\"">>

quote_table_name(table_name, dbt) ==
    IF dbt = "sqlserver"
    THEN <<"[">> \o table_name \o <<"]">>
    ELSE <<"\"">> \o table_name \o <<"\"">>

\* the SQL Server expression with the mask text in the ELSE branch
MsShowLast_ElseMask(q, prefix, n) ==
    CaseWhen(Fn("IS NOT NULL", <<Col(q)>>),
             Fn("+", <<Lit(prefix), Fn("RIGHT", <<Col(q), Num(n)>>)>>),
             Lit(prefix))

\* the SQL Server expression masking only values that fill the window:
\* CASE WHEN q IS NOT NULL AND LEN(q) > n - 1 THEN prefix + RIGHT(q, n) ELSE NULL END
MsShowLast_LengthGuard(q, prefix, n) ==
    CaseWhen(Fn("AND", <<Fn("IS NOT NULL", <<Col(q)>>),
                         Fn(">", <<Fn("LEN", <<Col(q)>>), Num(n - 1)>>)>>),
             Fn("+", <<Lit(prefix), Fn("RIGHT", <<Col(q), Num(n)>>)>>),
             NullLit)

\* CASE WHEN q IS NOT NULL THEN prefix + RIGHT(q, n) ELSE NULL END
MsShowLast(q, prefix, n) ==
    CaseWhen(Fn("IS NOT NULL", <<Col(q)>>),
             Fn("+", <<Lit(prefix), Fn("RIGHT", <<Col(q), Num(n)>>)>>),
             NullLit)

\* CASE WHEN q IS NOT NULL AND q LIKE '%%@%%' AND CHARINDEX('@', q) > 3
\* THEN LEFT(q, 3) + '***@' + SUBSTRING(q, CHARINDEX('@', q) + 1, LEN(q) - CHARINDEX('@', q))
\* ELSE NULL END
MsEmail(q) ==
    CaseWhen(
        Fn("AND", <<Fn("AND", <<Fn("IS NOT NULL", <<Col(q)>>),
                                Fn("LIKE", <<Col(q), Lit(LikeAt)>>)>>),
                    Fn(">", <<Fn("CHARINDEX", <<Lit(At), Col(q)>>), Num(3)>>)>>),
        Fn("+", <<Fn("+", <<Fn("LEFT", <<Col(q), Num(3)>>), Lit(StarsAt)>>),
                  Fn("SUBSTRING3",
                     <<Col(q),
                       Fn("+", <<Fn("CHARINDEX", <<Lit(At), Col(q)>>), Num(1)>>),
                       Fn("-", <<Fn("LEN", <<Col(q)>>),
                                 Fn("CHARINDEX", <<Lit(At), Col(q)>>)>>)>>)>>),
        NullLit)

\* the PostgreSQL expression starting one character early: LENGTH(q) - (k + 1)
PgShowLast_OffByOne(q, prefix, k) ==
    CaseWhen(Fn("IS NOT NULL", <<Col(q)>>),
             Fn("||", <<Lit(prefix),
                        Fn("SUBSTRING2",
                           <<Col(q), Fn("-", <<Fn("LENGTH", <<Col(q)>>), Num(k + 1)>>)>>)>>),
             NullLit)

\* the PostgreSQL expression masking only values longer than the window:
\* CASE WHEN q IS NOT NULL AND LENGTH(q) > k THEN ... ELSE NULL END
PgShowLast_LengthGuard(q, prefix, k) ==
    CaseWhen(Fn("AND", <<Fn("IS NOT NULL", <<Col(q)>>),
                         Fn(">", <<Fn("LENGTH", <<Col(q)>>), Num(k)>>)>>),
             Fn("||", <<Lit(prefix),
                        Fn("SUBSTRING2",
                           <<Col(q), Fn("-", <<Fn("LENGTH", <<Col(q)>>), Num(k)>>)>>)>>),
             NullLit)

\* CASE WHEN q IS NOT NULL THEN prefix || SUBSTRING(q, LENGTH(q) - k) ELSE NULL END
PgShowLast(q, prefix, k) ==
    CaseWhen(Fn("IS NOT NULL", <<Col(q)>>),
             Fn("||", <<Lit(prefix),
                        Fn("SUBSTRING2",
                           <<Col(q), Fn("-", <<Fn("LENGTH", <<Col(q)>>), Num(k)>>)>>)>>),
             NullLit)

\* CASE WHEN q IS NOT NULL AND q LIKE '%%@%%'
\* THEN SUBSTRING(q, 1, 3) || '***@' || SPLIT_PART(q, '@', 2) ELSE NULL END
PgEmail(q) ==
    CaseWhen(
        Fn("AND", <<Fn("IS NOT NULL", <<Col(q)>>), Fn("LIKE", <<Col(q), Lit(LikeAt)>>)>>),
        Fn("||", <<Fn("||", <<Fn("SUBSTRING3", <<Col(q), Num(1), Num(3)>>), Lit(StarsAt)>>),
                   Fn("SPLIT_PART", <<Col(q), Lit(At), Num(2)>>)>>),
        NullLit)

\* CASE WHEN q IS NOT NULL THEN '***' ELSE NULL END
MaskFallback(q) ==
    CaseWhen(Fn("IS NOT NULL", <<Col(q)>>), Lit(Stars), NullLit)

get_masked_field_sql(field_name, mask_pattern, dbt) ==
    LET quoted_field == quote_field_name(field_name, dbt)
    IN  IF dbt = "sqlserver"
        THEN CASE mask_pattern = "name"  -> MsShowLast(quoted_field, Stars, 2)
               [] mask_pattern = "phone" -> MsShowLast(quoted_field, PhoneStars, 4)
               [] mask_pattern = "id"    -> MsShowLast(quoted_field, Stars, 3)
               [] mask_pattern = "email" -> MsEmail(quoted_field)
               [] OTHER                  -> MaskFallback(quoted_field)
        ELSE CASE mask_pattern = "name"  -> PgShowLast(quoted_field, Stars, 1)
               [] mask_pattern = "phone" -> PgShowLast(quoted_field, PhoneStars, 3)
               [] mask_pattern = "id"    -> PgShowLast(quoted_field, Stars, 2)
               [] mask_pattern = "email" -> PgEmail(quoted_field)
               [] OTHER                  -> MaskFallback(quoted_field)

----------------------------------------------------------------------------
(* The schemas declared in src/transformer.py *)

Column(name, type, width, nullable, pk) ==
    [name |-> name, type |-> type, width |-> width, nullable |-> nullable, pk |-> pk]

\* defineInputDatasets: Store1.customers
InputCustomersSchema ==
    << Column(S_id, "VarChar", 20, FALSE, TRUE),
       Column(S_firstname, "VarChar", 100, FALSE, FALSE),
       Column(S_lastname, "VarChar", 100, FALSE, FALSE),
       Column(S_dob, "Date", 0, FALSE, FALSE),
       Column(S_email, "VarChar", 100, TRUE, FALSE),
       Column(S_phone, "VarChar", 100, TRUE, FALSE),
       Column(S_primaryaddressid, "VarChar", 20, TRUE, FALSE),
       Column(S_billingaddressid, "VarChar", 20, TRUE, FALSE) >>

\* defineOutputDatastore: MaskedCustomers.customers
OutputCustomersSchema ==
    << Column(S_id, "VarChar", 20, FALSE, TRUE),
       Column(S_firstname, "VarChar", 100, FALSE, FALSE),
       Column(S_lastname, "VarChar", 100, FALSE, FALSE),
       Column(S_dob, "Date", 0, FALSE, FALSE),
       Column(S_email, "VarChar", 100, TRUE, FALSE),
       Column(S_phone, "VarChar", 100, TRUE, FALSE),
       Column(S_primaryaddressid, "VarChar", 20, TRUE, FALSE),
       Column(S_billingaddressid, "VarChar", 20, TRUE, FALSE) >>

ColumnNames(schema) == [i \in 1..Len(schema) |-> schema[i].name]

----------------------------------------------------------------------------
(* The statement executeTransformer builds.  A statement is a record with  *)
(* one field per clause of the text: insert_into, columns, select, from    *)
(* (and where, for a statement that has a WHERE clause).                   *)

Item(expr) == [expr |-> expr]                          \* expr
ItemAs(expr, alias) == [expr |-> expr, as |-> alias]   \* expr as alias

\* the column list quoted for postgresql whatever the resolved dialect
ColumnList_DoubleQuoted(dbt) ==
    << quote_field_name(S_id, "postgresql"),
       quote_field_name(S_firstname, "postgresql"),
       quote_field_name(S_lastname, "postgresql"),
       quote_field_name(S_dob, "postgresql"),
       quote_field_name(S_email, "postgresql"),
       quote_field_name(S_phone, "postgresql"),
       quote_field_name(S_primaryaddressid, "postgresql"),
       quote_field_name(S_billingaddressid, "postgresql") >>

\* ({id_col}, {firstname_col}, ..., {billingaddressid_col})
ColumnList(dbt) ==
    << quote_field_name(S_id, dbt),
       quote_field_name(S_firstname, dbt),
       quote_field_name(S_lastname, dbt),
       quote_field_name(S_dob, dbt),
       quote_field_name(S_email, dbt),
       quote_field_name(S_phone, dbt),
       quote_field_name(S_primaryaddressid, dbt),
       quote_field_name(S_billingaddressid, dbt) >>

\* the SELECT list with the email and phone expressions in each other's place
SelectList_Swapped(dbt) ==
    << Item(Col(quote_field_name(S_id, dbt))),
       ItemAs(get_masked_field_sql(S_firstname, "name", dbt), quote_field_name(S_firstname, dbt)),
       ItemAs(get_masked_field_sql(S_lastname, "name", dbt), quote_field_name(S_lastname, dbt)),
       Item(Col(quote_field_name(S_dob, dbt))),
       ItemAs(get_masked_field_sql(S_phone, "phone", dbt), quote_field_name(S_phone, dbt)),
       ItemAs(get_masked_field_sql(S_email, "email", dbt), quote_field_name(S_email, dbt)),
       ItemAs(get_masked_field_sql(S_primaryaddressid, "id", dbt),
              quote_field_name(S_primaryaddressid, dbt)),
       ItemAs(get_masked_field_sql(S_billingaddressid, "id", dbt),
              quote_field_name(S_billingaddressid, dbt)) >>

\* the SELECT list with the id column masked like the address ids
SelectList_MaskedId(dbt) ==
    << ItemAs(get_masked_field_sql(S_id, "id", dbt), quote_field_name(S_id, dbt)),
       ItemAs(get_masked_field_sql(S_firstname, "name", dbt), quote_field_name(S_firstname, dbt)),
       ItemAs(get_masked_field_sql(S_lastname, "name", dbt), quote_field_name(S_lastname, dbt)),
       Item(Col(quote_field_name(S_dob, dbt))),
       ItemAs(get_masked_field_sql(S_email, "email", dbt), quote_field_name(S_email, dbt)),
       ItemAs(get_masked_field_sql(S_phone, "phone", dbt), quote_field_name(S_phone, dbt)),
       ItemAs(get_masked_field_sql(S_primaryaddressid, "id", dbt),
              quote_field_name(S_primaryaddressid, dbt)),
       ItemAs(get_masked_field_sql(S_billingaddressid, "id", dbt),
              quote_field_name(S_billingaddressid, dbt)) >>

\* the SELECT list with the phone column masked by the id pattern
SelectList_PhoneAsId(dbt) ==
    << Item(Col(quote_field_name(S_id, dbt))),
       ItemAs(get_masked_field_sql(S_firstname, "name", dbt), quote_field_name(S_firstname, dbt)),
       ItemAs(get_masked_field_sql(S_lastname, "name", dbt), quote_field_name(S_lastname, dbt)),
       Item(Col(quote_field_name(S_dob, dbt))),
       ItemAs(get_masked_field_sql(S_email, "email", dbt), quote_field_name(S_email, dbt)),
       ItemAs(get_masked_field_sql(S_phone, "id", dbt), quote_field_name(S_phone, dbt)),
       ItemAs(get_masked_field_sql(S_primaryaddressid, "id", dbt),
              quote_field_name(S_primaryaddressid, dbt)),
       ItemAs(get_masked_field_sql(S_billingaddressid, "id", dbt),
              quote_field_name(S_billingaddressid, dbt)) >>

\* the SELECT list of the statement
SelectList(dbt) ==
    << Item(Col(quote_field_name(S_id, dbt))),
       ItemAs(get_masked_field_sql(S_firstname, "name", dbt), quote_field_name(S_firstname, dbt)),
       ItemAs(get_masked_field_sql(S_lastname, "name", dbt), quote_field_name(S_lastname, dbt)),
       Item(Col(quote_field_name(S_dob, dbt))),
       ItemAs(get_masked_field_sql(S_email, "email", dbt), quote_field_name(S_email, dbt)),
       ItemAs(get_masked_field_sql(S_phone, "phone", dbt), quote_field_name(S_phone, dbt)),
       ItemAs(get_masked_field_sql(S_primaryaddressid, "id", dbt),
              quote_field_name(S_primaryaddressid, dbt)),
       ItemAs(get_masked_field_sql(S_billingaddressid, "id", dbt),
              quote_field_name(S_billingaddressid, dbt)) >>

\* the statement with a filter: ... FROM {quoted_source_table} WHERE {email_col} IS NOT NULL
InsertQuery_Where(source, output, dbt) ==
    [ insert_into |-> quote_table_name(output, dbt),
      columns     |-> ColumnList(dbt),
      select      |-> SelectList(dbt),
      from        |-> quote_table_name(source, dbt),
      where       |-> Fn("IS NOT NULL", <<Col(quote_field_name(S_email, dbt))>>) ]

\* the statement built from a column list kept between invocations: every
\* invocation after the first appends the eight columns again
InsertQuery_Accumulating(source, output, dbt) ==
    [ insert_into |-> quote_table_name(output, dbt),
      columns     |-> IF runs > 1 THEN ColumnList(dbt) \o ColumnList(dbt) ELSE ColumnList(dbt),
      select      |-> SelectList(dbt),
      from        |-> quote_table_name(source, dbt) ]

\* INSERT INTO {quoted_output_table} (columns) SELECT items FROM {quoted_source_table}
InsertQuery(source, output, dbt) ==
    [ insert_into |-> quote_table_name(output, dbt),
      columns     |-> ColumnList(dbt),
      select      |-> SelectList(dbt),
      from        |-> quote_table_name(source, dbt) ]

----------------------------------------------------------------------------
(* conn.execute: what the engine does with an INSERT ... SELECT statement  *)

RECURSIVE OpsIn(_)
OpsIn(e) ==
    IF e.op \in {"col", "lit", "num", "NULL"} THEN {}
    ELSE {e.op} \cup UNION {OpsIn(e.args[i]) : i \in 1..Len(e.args)}

RECURSIVE ColsIn(_)
ColsIn(e) ==
    IF e.op = "col" THEN {e.q}
    ELSE IF e.op \in {"lit", "num", "NULL"} THEN {}
    ELSE UNION {ColsIn(e.args[i]) : i \in 1..Len(e.args)}

\* the operators and functions each engine knows, among those of Apply
EngineOps(engine) ==
    IF engine = "sqlserver"
    THEN {"CASE", "IS NOT NULL", "AND", ">", "LIKE", "+", "-", "RIGHT", "LEFT",
          "SUBSTRING3", "LEN", "CHARINDEX"}
    ELSE {"CASE", "IS NOT NULL", "AND", ">", "LIKE", "||", "-", "RIGHT", "LEFT",
          "SUBSTRING3", "SUBSTRING2", "LENGTH", "SPLIT_PART"}

\* "name" is an identifier for both engines, [name] for SQL Server only
IdentifierOk(engine, q) ==
    /\ Len(q) >= 3
    /\ \/ /\ q[1] = "\"" /\ q[Len(q)] = "\""
          /\ ~HasChar(Unquote(q), "\"")
       \/ /\ engine = "sqlserver"
          /\ q[1] = "[" /\ q[Len(q)] = "]"
          /\ ~HasChar(Unquote(q), "]")

Range(f) == {f[i] : i \in DOMAIN f}

StatementIdentifiers(stmt) ==
    {stmt.insert_into, stmt.from}
    \cup Range(stmt.columns)
    \cup UNION {ColsIn(stmt.select[i].expr) : i \in 1..Len(stmt.select)}
    \cup {stmt.select[i].as : i \in {j \in 1..Len(stmt.select) : "as" \in DOMAIN stmt.select[j]}}

StatementOps(stmt) ==
    UNION {OpsIn(stmt.select[i].expr) : i \in 1..Len(stmt.select)}
    \cup (IF "where" \in DOMAIN stmt THEN OpsIn(stmt.where) ELSE {})

\* the source rows the statement selects: all of them, unless it has a WHERE
SelectedRows(stmt, db) ==
    LET B == db[Unquote(stmt.from)]
        keep == {r \in BagToSet(B) :
                    "where" \in DOMAIN stmt => Eval(stmt.where, r) = BoolV("true")}
    IN  [r \in keep |-> CopiesIn(r, B)]

\* the destination row made from source row r: the i-th SELECT item goes to
\* the i-th column of the column list, columns not listed are NULL
NewRow(stmt, r) ==
    [c \in Range(ColumnNames(OutputCustomersSchema)) |->
        IF \E i \in 1..Len(stmt.columns) : Unquote(stmt.columns[i]) = c
        THEN Eval(stmt.select[CHOOSE i \in 1..Len(stmt.columns) :
                                  Unquote(stmt.columns[i]) = c].expr, r)
        ELSE NullV]

RECURSIVE SumCopies(_, _)
SumCopies(S, B) ==
    IF S = {} THEN 0
    ELSE LET r == CHOOSE x \in S : TRUE
         IN  CopiesIn(r, B) + SumCopies(S \ {r}, B)

\* the bag of rows the statement inserts
InsertedRows(stmt, db) ==
    LET B == SelectedRows(stmt, db)
        made == {NewRow(stmt, r) : r \in BagToSet(B)}
    IN  [o \in made |-> SumCopies({r \in BagToSet(B) : NewRow(stmt, r) = o}, B)]

\* the engine can run the statement: it parses, its tables and columns exist
\* and no expression fails
EngineAccepts(engine, stmt, db) ==
    /\ \A q \in StatementIdentifiers(stmt) : IdentifierOk(engine, q)
    /\ StatementOps(stmt) \subseteq EngineOps(engine)
    /\ Unquote(stmt.from) \in DOMAIN db
    /\ Unquote(stmt.insert_into) \in DOMAIN db
    /\ Len(stmt.columns) = Len(stmt.select)
    /\ \A i, j \in 1..Len(stmt.columns) : stmt.columns[i] = stmt.columns[j] => i = j
    /\ \A i \in 1..Len(stmt.columns) :
            Unquote(stmt.columns[i]) \in Range(ColumnNames(OutputCustomersSchema))
    /\ \A o \in BagToSet(InsertedRows(stmt, db)) : \A c \in DOMAIN o : ~IsErr(o[c])
    /\ "where" \in DOMAIN stmt
         => \A r \in BagToSet(db[Unquote(stmt.from)]) : ~IsErr(Eval(stmt.where, r))

\* the database after a run that clears the destination before it inserts
AfterInsert_Replacing(stmt, db) ==
    [db EXCEPT ![Unquote(stmt.insert_into)] = InsertedRows(stmt, db)]

\* the database after the statement ran
AfterInsert(stmt, db) ==
    [db EXCEPT ![Unquote(stmt.insert_into)] = @ (+) InsertedRows(stmt, db)]

\* the row count the engine reports
RowCount(stmt, db) == BagCardinality(InsertedRows(stmt, db))

----------------------------------------------------------------------------
(* Data *)

MaxRows == 2       \* most rows in the source table
MaxRuns == 2       \* most invocations of executeTransformer

DateV(s) == [t |-> "date", s |-> s]

Alice ==
    (S_id :> StrV(<<"C", "U", "S", "T", "0", "0", "1">>)) @@
    (S_firstname :> StrV(<<"a", "l", "i", "c", "e">>)) @@
    (S_lastname :> StrV(<<"s", "m", "i", "t", "h">>)) @@
    (S_dob :> DateV(<<"1", "9", "9", "0", "-", "0", "1", "-", "1", "5">>)) @@
    (S_email :> StrV(<<"a", "l", "i", "c", "e", ".", "s", "m", "i", "t", "h", "@", "c", "o", "m", "p", "a", "n", "y", ".", "c", "o", "m">>)) @@
    (S_phone :> StrV(<<"5", "5", "5", "-", "1", "2", "3", "-", "4", "5", "6", "7">>)) @@
    (S_primaryaddressid :> StrV(<<"A", "D", "D", "R", "0", "0", "1">>)) @@
    (S_billingaddressid :> StrV(<<"A", "D", "D", "R", "0", "0", "1">>))

Bob ==
    (S_id :> StrV(<<"C", "U", "S", "T", "0", "0", "2">>)) @@
    (S_firstname :> StrV(<<"b", "o", "b">>)) @@
    (S_lastname :> StrV(<<"j", "o", "n", "e", "s">>)) @@
    (S_dob :> DateV(<<"1", "9", "8", "5", "-", "0", "5", "-", "2", "0">>)) @@
    (S_email :> StrV(<<"b", "o", "b", ".", "j", "o", "n", "e", "s", "@", "e", "x", "a", "m", "p", "l", "e", ".", "c", "o", "m">>)) @@
    (S_phone :> StrV(<<"5", "5", "5", "-", "2", "2", "2", "-", "2", "2", "2", "2">>)) @@
    (S_primaryaddressid :> StrV(<<"A", "D", "D", "R", "0", "0", "2">>)) @@
    (S_billingaddressid :> StrV(<<"A", "D", "D", "R", "0", "0", "2">>))

David ==
    (S_id :> StrV(<<"C", "U", "S", "T", "0", "0", "4">>)) @@
    (S_firstname :> StrV(<<"d", "a", "v", "i", "d">>)) @@
    (S_lastname :> StrV(<<"b", "r", "o", "w", "n">>)) @@
    (S_dob :> DateV(<<"1", "9", "8", "8", "-", "0", "3", "-", "2", "5">>)) @@
    (S_email :> NullV) @@
    (S_phone :> NullV) @@
    (S_primaryaddressid :> NullV) @@
    (S_billingaddressid :> NullV)

Odd ==
    (S_id :> StrV(<<"C", "5">>)) @@
    (S_firstname :> StrV(<<"x">>)) @@
    (S_lastname :> StrV(<<>>)) @@
    (S_dob :> DateV(<<"2", "0", "0", "0", "-", "0", "2", "-", "2", "9">>)) @@
    (S_email :> StrV(<<"a", "b", "@", "x", "@", "y", " ">>)) @@
    (S_phone :> StrV(<<"1", "2">>)) @@
    (S_primaryaddressid :> StrV(<<"A">>)) @@
    (S_billingaddressid :> NullV)

Old ==
    (S_id :> StrV(<<"C", "U", "S", "T", "0", "0", "0">>)) @@
    (S_firstname :> StrV(<<"*", "*", "*", "v", "e">>)) @@
    (S_lastname :> StrV(<<"*", "*", "*", "o", "e">>)) @@
    (S_dob :> DateV(<<"1", "9", "7", "0", "-", "0", "1", "-", "0", "1">>)) @@
    (S_email :> NullV) @@
    (S_phone :> StrV(<<"*", "*", "*", "-", "*", "*", "*", "-", "0", "0", "0", "0">>)) @@
    (S_primaryaddressid :> StrV(<<"*", "*", "*", "R", "0", "0">>)) @@
    (S_billingaddressid :> NullV)

S_cockroachdb == <<"c", "o", "c", "k", "r", "o", "a", "c", "h", "d", "b">>
T_store1_customers == <<"s", "t", "o", "r", "e", "1", "_", "c", "u", "s", "t", "o", "m", "e", "r", "s">>
T_masked_customers == <<"m", "a", "s", "k", "e", "d", "_", "c", "u", "s", "t", "o", "m", "e", "r", "s">>
T_in == <<"i", "n">>
T_out == <<"o", "u", "t">>

SampleRows == {Alice, Bob, David, Odd}

\* source tables: rows with distinct ids (id is the primary key)
SourceTables == {SetToBag(S) : S \in {T \in SUBSET SampleRows : Cardinality(T) <= MaxRows}}

\* the destination before the first run: empty, or holding an earlier row
DestTables == {EmptyBag, SetToBag({Old})}

Connections ==
    { [dialect_name |-> S_postgresql, engine |-> "postgresql"],
      [dialect_name |-> S_mssql, engine |-> "sqlserver"],
      [dialect_name |-> S_cockroachdb, engine |-> "postgresql"] }

Contexts ==
    { [input |-> T_store1_customers, output |-> T_masked_customers],
      [input |-> T_in, output |-> T_out] }

----------------------------------------------------------------------------
(* executeTransformer(conn, context), invoked up to MaxRuns times in a row *)

Unbound == [unbound |-> TRUE]

\* what a function declared "-> None" hands to its caller
NoneV == [t |-> "None"]

\* the exceptions conn.execute raises (sqlalchemy.exc)
DriverErrors == {"IntegrityError", "OperationalError", "ProgrammingError"}

NoRet == [done |-> FALSE]
Ret(v) == [done |-> TRUE, v |-> v]

LocalsUnbound ==
    /\ sourceCustomerTableName = Unbound
    /\ outputCustomerTableName = Unbound
    /\ db_type = Unbound
    /\ insert_query = Unbound

TransformerInit ==
    /\ pc = "idle"
    /\ runs = 0
    /\ \E c \in Connections, t \in BOOLEAN :
          conn = [dialect_name |-> c.dialect_name, engine |-> c.engine,
                  in_transaction |-> t, closed |-> FALSE, executed |-> <<>>,
                  errors |-> <<>>]
    /\ context \in Contexts
    /\ \E src \in SourceTables, dst \in DestTables :
          database = (context.input :> src) @@ (context.output :> dst)
    /\ LocalsUnbound
    /\ result = [status |-> "none"]

\* the state of the transformer variables while the function harness runs
TransformerNotInvoked ==
    /\ pc = "idle"
    /\ runs = 0
    /\ conn = [dialect_name |-> S_postgresql, engine |-> "postgresql",
               in_transaction |-> FALSE, closed |-> FALSE, executed |-> <<>>,
               errors |-> <<>>]
    /\ context = [input |-> T_in, output |-> T_out]
    /\ database = (T_in :> EmptyBag) @@ (T_out :> EmptyBag)
    /\ LocalsUnbound
    /\ result = [status |-> "none"]

\* the caller invokes executeTransformer
Invoke ==
    /\ pc \in {"idle", "returned", "raised"}
    /\ runs < MaxRuns
    /\ runs' = runs + 1
    /\ pc' = "read_context"
    /\ sourceCustomerTableName' = Unbound
    /\ outputCustomerTableName' = Unbound
    /\ db_type' = Unbound
    /\ insert_query' = Unbound
    /\ result' = [status |-> "running"]
    /\ UNCHANGED <<conn, context, database, fnvars, inv>>

\* sourceCustomerTableName = context.getInputTableNameForDataset(...)
\* outputCustomerTableName = context.getOutputTableNameForDataset("customers")
ReadContext ==
    /\ pc = "read_context"
    /\ sourceCustomerTableName' = context.input
    /\ outputCustomerTableName' = context.output
    /\ pc' = "detect"
    /\ UNCHANGED <<runs, conn, context, database, db_type, insert_query, result, fnvars, inv>>

\* db_type = get_database_type(conn)
DetectDatabaseType ==
    /\ pc = "detect"
    /\ db_type' = get_database_type(conn.dialect_name)
    /\ pc' = "build"
    /\ UNCHANGED <<runs, conn, context, database, sourceCustomerTableName,
                   outputCustomerTableName, insert_query, result, fnvars, inv>>

\* the masking expressions, the quoted names and insert_query
BuildStatement ==
    /\ pc = "build"
    /\ insert_query' = InsertQuery(sourceCustomerTableName, outputCustomerTableName, db_type)
    /\ pc' = "execute"
    /\ UNCHANGED <<runs, conn, context, database, sourceCustomerTableName,
                   outputCustomerTableName, db_type, result, fnvars, inv>>

\* the statement succeeds and the transaction is committed: conn.commit()
\* after conn.execute
ExecuteReturns_Commit ==
    /\ pc = "execute"
    /\ ~conn.closed
    /\ EngineAccepts(conn.engine, insert_query, database)
    /\ database' = AfterInsert(insert_query, database)
    /\ conn' = [conn EXCEPT !.executed = Append(@, insert_query), !.in_transaction = FALSE]
    /\ result' = [status |-> "returned", value |-> NoneV,
                  printed |-> RowCount(insert_query, database)]
    /\ pc' = "returned"
    /\ UNCHANGED <<runs, context, sourceCustomerTableName, outputCustomerTableName,
                   db_type, insert_query, fnvars, inv>>

\* result = conn.execute(text(insert_query)) succeeds; the row count is
\* printed and the function returns None.  A connection with no transaction
\* begins one when it executes a statement.
ExecuteReturns ==
    /\ pc = "execute"
    /\ ~conn.closed
    /\ EngineAccepts(conn.engine, insert_query, database)
    /\ database' = AfterInsert(insert_query, database)
    /\ conn' = [conn EXCEPT !.executed = Append(@, insert_query), !.in_transaction = TRUE]
    /\ result' = [status |-> "returned", value |-> NoneV,
                  printed |-> RowCount(insert_query, database)]
    /\ pc' = "returned"
    /\ UNCHANGED <<runs, context, sourceCustomerTableName, outputCustomerTableName,
                   db_type, insert_query, fnvars, inv>>

\* conn.execute raises, is caught, and the statement is executed once more
\* before the exception leaves executeTransformer
ExecuteRaises_Retry ==
    /\ pc = "execute"
    /\ \E e \in DriverErrors :
          /\ conn' = [conn EXCEPT !.executed = Append(Append(@, insert_query), insert_query),
                                  !.errors = Append(@, e),
                                  !.in_transaction = TRUE]
          /\ result' = [status |-> "raised", error |-> e]
    /\ pc' = "raised"
    /\ UNCHANGED <<runs, context, database, sourceCustomerTableName,
                   outputCustomerTableName, db_type, insert_query, fnvars, inv>>

\* conn.execute raises, the exception is caught and logged, and
\* executeTransformer returns normally
ExecuteRaises_Swallowed ==
    /\ pc = "execute"
    /\ \E e \in DriverErrors :
          conn' = [conn EXCEPT !.executed = Append(@, insert_query),
                               !.errors = Append(@, e),
                               !.in_transaction = TRUE]
    /\ result' = [status |-> "returned", value |-> NoneV, printed |-> 0]
    /\ pc' = "returned"
    /\ UNCHANGED <<runs, context, database, sourceCustomerTableName,
                   outputCustomerTableName, db_type, insert_query, fnvars, inv>>

\* conn.execute raises (the engine rejects the statement, a constraint is
\* violated, the connection is lost): nothing is inserted and the exception
\* e the driver raised leaves executeTransformer, which has no try / except
ExecuteRaises ==
    /\ pc = "execute"
    /\ \E e \in DriverErrors :
          /\ conn' = [conn EXCEPT !.executed = Append(@, insert_query),
                                  !.errors = Append(@, e),
                                  !.in_transaction = TRUE]
          /\ result' = [status |-> "raised", error |-> e]
    /\ pc' = "raised"
    /\ UNCHANGED <<runs, context, database, sourceCustomerTableName,
                   outputCustomerTableName, db_type, insert_query, fnvars, inv>>

Next ==
    \/ Invoke
    \/ ReadContext
    \/ DetectDatabaseType
    \/ BuildStatement
    \/ ExecuteReturns
    \/ ExecuteRaises

Init ==
    /\ TransformerInit
    /\ call = [fn |-> "none"]
    /\ ret = NoRet
    /\ out = NoRet
    /\ inv = <<>>

Spec == Init /\ [][Next]_vars

----------------------------------------------------------------------------
(* Several invocations of executeTransformer at the same time, each with   *)
(* the connection and the context its caller passed.  The module has no    *)
(* global variable: everything an invocation reads or writes is its        *)
(* arguments and its locals, held in inv[i].  The steps are the steps of   *)
(* the single invocation above.                                            *)

MaxInvocations == 2     \* invocations running at the same time

Invocations == 1..MaxInvocations

\* the source table of the concurrent runs
ConcurrentSourceTable == SetToBag({Alice, Odd})

\* an invocation that has just been entered with connection c, whose
\* database holds the source table and an empty destination
Frame(c) ==
    [ pc |-> "read_context",
      conn |-> [dialect_name |-> c.dialect_name, engine |-> c.engine,
                in_transaction |-> FALSE, closed |-> FALSE, executed |-> <<>>,
                errors |-> <<>>],
      context |-> [input |-> T_in, output |-> T_out],
      database |-> (T_in :> ConcurrentSourceTable) @@ (T_out :> EmptyBag),
      sourceCustomerTableName |-> Unbound,
      outputCustomerTableName |-> Unbound,
      db_type |-> Unbound,
      insert_query |-> Unbound,
      result |-> [status |-> "running"] ]

ConcurrentReadContext(i) ==
    /\ inv[i].pc = "read_context"
    /\ inv' = [inv EXCEPT ![i] =
                  [inv[i] EXCEPT !.sourceCustomerTableName = inv[i].context.input,
                                 !.outputCustomerTableName = inv[i].context.output,
                                 !.pc = "detect"]]
    /\ UNCHANGED <<tvars, fnvars>>

\* an invocation that takes the dialect from a module-level cache the first
\* invocation to resolve a dialect has filled
ConcurrentDetectDatabaseType_Cached(i) ==
    /\ inv[i].pc = "detect"
    /\ LET filled == {j \in Invocations : inv[j].pc \in {"build", "execute", "returned", "raised"}}
       IN  inv' = [inv EXCEPT ![i] =
                     [inv[i] EXCEPT !.db_type =
                                       IF filled = {}
                                       THEN get_database_type(inv[i].conn.dialect_name)
                                       ELSE inv[CHOOSE j \in filled : TRUE].db_type,
                                    !.pc = "build"]]
    /\ UNCHANGED <<tvars, fnvars>>

ConcurrentDetectDatabaseType(i) ==
    /\ inv[i].pc = "detect"
    /\ inv' = [inv EXCEPT ![i] =
                  [inv[i] EXCEPT !.db_type = get_database_type(inv[i].conn.dialect_name),
                                 !.pc = "build"]]
    /\ UNCHANGED <<tvars, fnvars>>

ConcurrentBuildStatement(i) ==
    /\ inv[i].pc = "build"
    /\ inv' = [inv EXCEPT ![i] =
                  [inv[i] EXCEPT !.insert_query =
                                    InsertQuery(inv[i].sourceCustomerTableName,
                                                inv[i].outputCustomerTableName,
                                                inv[i].db_type),
                                 !.pc = "execute"]]
    /\ UNCHANGED <<tvars, fnvars>>

ConcurrentExecuteReturns(i) ==
    /\ inv[i].pc = "execute"
    /\ ~inv[i].conn.closed
    /\ EngineAccepts(inv[i].conn.engine, inv[i].insert_query, inv[i].database)
    /\ inv' = [inv EXCEPT ![i] =
                  [inv[i] EXCEPT !.database = AfterInsert(inv[i].insert_query, inv[i].database),
                                 !.conn = [inv[i].conn EXCEPT
                                              !.executed = Append(@, inv[i].insert_query),
                                              !.in_transaction = TRUE],
                                 !.result = [status |-> "returned", value |-> NoneV,
                                             printed |-> RowCount(inv[i].insert_query,
                                                                  inv[i].database)],
                                 !.pc = "returned"]]
    /\ UNCHANGED <<tvars, fnvars>>

ConcurrentExecuteRaises(i) ==
    /\ inv[i].pc = "execute"
    /\ \E e \in DriverErrors :
          inv' = [inv EXCEPT ![i] =
                     [inv[i] EXCEPT !.conn = [inv[i].conn EXCEPT
                                                 !.executed = Append(@, inv[i].insert_query),
                                                 !.errors = Append(@, e),
                                                 !.in_transaction = TRUE],
                                    !.result = [status |-> "raised", error |-> e],
                                    !.pc = "raised"]]
    /\ UNCHANGED <<tvars, fnvars>>

ConcurrentNext ==
    \E i \in Invocations :
        \/ ConcurrentReadContext(i)
        \/ ConcurrentDetectDatabaseType(i)
        \/ ConcurrentBuildStatement(i)
        \/ ConcurrentExecuteReturns(i)
        \/ ConcurrentExecuteRaises(i)

ConcurrentInit ==
    /\ inv \in [Invocations -> {Frame(c) : c \in Connections}]
    /\ TransformerNotInvoked
    /\ call = [fn |-> "none"]
    /\ ret = NoRet
    /\ out = NoRet

SpecConcurrent == ConcurrentInit /\ [][ConcurrentNext]_vars

----------------------------------------------------------------------------
(* Properties of the statement and of its execution *)

StatementBuilt == pc \in {"execute", "returned", "raised"}

\* a successful execution: the step from "execute" to "returned"
Executed == pc = "execute" /\ pc' = "returned"

SourceRows == database[context.input]
DestRows == database[context.output]

Ids(B) == {r[S_id] : r \in BagToSet(B)}

\* C8: the statement is one INSERT INTO <quoted destination> (<columns>)
\* SELECT <items> FROM <quoted source> without WHERE; the column list and the
\* SELECT list both have 8 entries, the i-th item is computed from the i-th
\* column (and aliased to it, if aliased), and the columns are id, firstname,
\* lastname, dob, email, phone, primaryaddressid, billingaddressid: the
\* column order of the schema defineOutputDatastore declares.
C8_StatementShape ==
    StatementBuilt =>
        /\ DOMAIN insert_query = {"insert_into", "columns", "select", "from"}
        /\ Unquote(insert_query.insert_into) = context.output
        /\ Unquote(insert_query.from) = context.input
        /\ Len(insert_query.columns) = 8
        /\ Len(insert_query.select) = 8
        /\ \A i \in 1..8 :
              /\ ColsIn(insert_query.select[i].expr) = {insert_query.columns[i]}
              /\ "as" \in DOMAIN insert_query.select[i]
                    => insert_query.select[i].as = insert_query.columns[i]
        /\ [i \in 1..8 |-> Unquote(insert_query.columns[i])]
              = <<S_id, S_firstname, S_lastname, S_dob, S_email, S_phone,
                  S_primaryaddressid, S_billingaddressid>>
        /\ [i \in 1..8 |-> Unquote(insert_query.columns[i])]
              = ColumnNames(OutputCustomersSchema)

C8_Witness ==
    /\ pc = "execute"
    /\ db_type = "sqlserver"
    /\ insert_query.columns[5] = <<"[", "e", "m", "a", "i", "l", "]">>
    /\ insert_query.from = <<"[">> \o T_store1_customers \o <<"]">>

\* C9: in the statement the SELECT items of id and dob are the bare quoted
\* column references, and a successful execution inserts, for every source
\* row, a row with that row's id and dob (and no row with any other id and
\* dob), in both dialects.
C9_KeysPassThrough ==
    [][Executed =>
        /\ insert_query.select[1] = Item(Col(quote_field_name(S_id, db_type)))
        /\ insert_query.select[4] = Item(Col(quote_field_name(S_dob, db_type)))
        /\ LET inserted == DestRows' (-) DestRows
           IN  /\ \A r \in BagToSet(SourceRows) : \E d \in BagToSet(inserted) :
                      d[S_id] = r[S_id] /\ d[S_dob] = r[S_dob]
               /\ \A d \in BagToSet(inserted) : \E r \in BagToSet(SourceRows) :
                      d[S_id] = r[S_id] /\ d[S_dob] = r[S_dob]]_vars

C9_Witness ==
    /\ pc = "returned"
    /\ db_type = "sqlserver"
    /\ Alice \in BagToSet(SourceRows)
    /\ \E d \in BagToSet(DestRows) :
          /\ d[S_id] = Alice[S_id]
          /\ d[S_dob] = Alice[S_dob]
          /\ d[S_firstname] # Alice[S_firstname]

\* C10: a successful run on a source of n rows with distinct ids and an
\* empty destination leaves exactly n rows in the destination, whose ids are
\* the ids of the source.
C10_AllRowsCopied ==
    [][(/\ Executed
        /\ DestRows = EmptyBag
        /\ \A r \in BagToSet(SourceRows) : CopiesIn(r, SourceRows) = 1
        /\ \A r1, r2 \in BagToSet(SourceRows) : r1[S_id] = r2[S_id] => r1 = r2)
       => /\ BagCardinality(DestRows') = BagCardinality(SourceRows)
          /\ Cardinality(BagToSet(DestRows')) = BagCardinality(SourceRows)
          /\ Ids(DestRows') = Ids(SourceRows)]_vars

C10_Witness ==
    /\ pc = "returned"
    /\ runs = 1
    /\ BagToSet(SourceRows) = {Alice, David}
    /\ BagCardinality(DestRows) = 2
    /\ Ids(DestRows) = {Alice[S_id], David[S_id]}

----------------------------------------------------------------------------
(* Function harness: one call of one function of src/transformer.py with   *)
(* arguments drawn from bounded sets; for get_masked_field_sql the engine  *)
(* then evaluates the returned expression on a row holding the value.      *)

ValueChars == {"a", "b", "@", " "}
Repeat(c, n) == [i \in 1..n |-> c]

\* the declared width of column c
WidthOf(schema, c) == schema[CHOOSE i \in 1..Len(schema) : schema[i].name = c].width

\* values as long as the source schema allows: an email address, a text
\* that begins with '@' and a text without '@' of VarChar(100), and an id
\* of VarChar(20)
WidestValues ==
    LET w == WidthOf(InputCustomersSchema, S_email)
        v == WidthOf(InputCustomersSchema, S_primaryaddressid)
    IN  { StrV(<<"a", "b", "c", "@">> \o Repeat("d", w - 4)),
          StrV(<<"@">> \o Repeat("d", w - 1)),
          StrV(Repeat("a", w)),
          StrV(Repeat("a", v)) }

Values == {NullV} \cup {StrV(s) : s \in SeqsUpTo(ValueChars, MaxLen)} \cup WidestValues

MaskPatterns == {"name", "phone", "id", "email"}
PatternArgs == MaskPatterns \cup {"zip"}            \* "zip": not a pattern
DbTypes == {"postgresql", "sqlserver"}              \* results of get_database_type
DbTypeArgs == DbTypes \cup {"mysql"}                \* "mysql": any other string

QuoteChars == {"a", "[", "]", "\""}
QuoteNames == SeqsUpTo(QuoteChars, MaxNameLen)

DialectTokens ==
    { S_postgres, <<"P", "o", "s", "t", "g", "r", "e", "S">>, <<"q", "l">>,
      S_mssql, <<"M", "S", "S", "Q", "L">>, <<"m", "s">>, <<"s", "q", "l">>,
      S_sqlserver, <<"S", "e", "r", "v", "e", "r">>, <<"m", "y">>, <<"+">> }
DialectNames == {Flatten(ts) : ts \in SeqsUpTo(DialectTokens, MaxTokens)}

Calls ==
    [fn : {"get_database_type"}, dialect_name : DialectNames]
    \cup [fn : {"quote_field_name", "quote_table_name"}, name : QuoteNames,
          db_type : DbTypeArgs]
    \cup [fn : {"get_masked_field_sql"}, field_name : {S_email},
          mask_pattern : PatternArgs, db_type : DbTypeArgs, value : Values]

FnInit ==
    /\ call \in Calls
    /\ ret = NoRet
    /\ out = NoRet
    /\ TransformerNotInvoked
    /\ inv = <<>>

CallGetDatabaseType ==
    /\ call.fn = "get_database_type"
    /\ ~ret.done
    /\ ret' = Ret(get_database_type(call.dialect_name))
    /\ UNCHANGED <<call, out>>
    /\ UNCHANGED <<tvars, inv>>

CallQuoteFieldName ==
    /\ call.fn = "quote_field_name"
    /\ ~ret.done
    /\ ret' = Ret(quote_field_name(call.name, call.db_type))
    /\ UNCHANGED <<call, out>>
    /\ UNCHANGED <<tvars, inv>>

CallQuoteTableName ==
    /\ call.fn = "quote_table_name"
    /\ ~ret.done
    /\ ret' = Ret(quote_table_name(call.name, call.db_type))
    /\ UNCHANGED <<call, out>>
    /\ UNCHANGED <<tvars, inv>>

CallGetMaskedFieldSql ==
    /\ call.fn = "get_masked_field_sql"
    /\ ~ret.done
    /\ ret' = Ret(get_masked_field_sql(call.field_name, call.mask_pattern, call.db_type))
    /\ UNCHANGED <<call, out>>
    /\ UNCHANGED <<tvars, inv>>

\* the engine evaluates the returned expression on a row whose column
\* call.field_name holds call.value
EvaluateMask ==
    /\ call.fn = "get_masked_field_sql"
    /\ ret.done
    /\ ~out.done
    /\ out' = Ret(Eval(ret.v, [c \in {call.field_name} |-> call.value]))
    /\ UNCHANGED <<call, ret>>
    /\ UNCHANGED <<tvars, inv>>

FnNext ==
    \/ CallGetDatabaseType
    \/ CallQuoteFieldName
    \/ CallQuoteTableName
    \/ CallGetMaskedFieldSql
    \/ EvaluateMask

SpecFn == FnInit /\ [][FnNext]_vars

----------------------------------------------------------------------------
(* Properties of the masking expressions *)

\* a finished evaluation of get_masked_field_sql(_, pattern, db_type) on a value
Masked(patterns, db_types) ==
    /\ call.fn = "get_masked_field_sql"
    /\ call.mask_pattern \in patterns
    /\ call.db_type \in db_types
    /\ out.done

Reveal(pattern) ==
    CASE pattern = "name" -> 2 [] pattern = "phone" -> 4 [] pattern = "id" -> 3

Prefix(pattern) ==
    CASE pattern = "name" -> Stars [] pattern = "phone" -> PhoneStars [] pattern = "id" -> Stars

\* the text of s after its first '@'
AfterAt(s) == SubSeq(s, IndexOf("@", s) + 1, Len(s))

EndsWith(s, tail) == Len(s) >= Len(tail) /\ LastN(s, Len(tail)) = tail

\* C1: for the four patterns and both dialects a NULL column value is masked
\* to NULL (not to a string, empty or not, and not to an error).
C1_NullPreserved ==
    (Masked(MaskPatterns, DbTypes) /\ IsNull(call.value)) => out.v = NullV

C1_Witness ==
    /\ Masked({"email"}, {"sqlserver"})
    /\ IsNull(call.value)
    /\ out.v = NullV

\* C2: for name, phone and id, in both dialects, a value of at least N
\* characters (2, 4, 3) is masked to the fixed prefix followed by exactly its
\* last N characters.
C2_PrefixAndLastN ==
    (/\ Masked({"name", "phone", "id"}, DbTypes)
     /\ IsStr(call.value)
     /\ Len(call.value.s) >= Reveal(call.mask_pattern))
    => out.v = StrV(Prefix(call.mask_pattern)
                    \o LastN(call.value.s, Reveal(call.mask_pattern)))

C2_Witness ==
    /\ Masked({"phone"}, {"postgresql"})
    /\ call.value = StrV(<<"a", "b", "a", "a", "b">>)
    /\ out.v = StrV(PhoneStars \o <<"b", "a", "a", "b">>)

\* C3: for email, in both dialects, a value with exactly one '@' and at least
\* 3 characters before it is masked to its first 3 characters, '***@' and the
\* text after the '@'; a value without '@' is masked to NULL.
C3_EmailShape ==
    (Masked({"email"}, DbTypes) /\ IsStr(call.value))
    => /\ (Count(call.value.s, "@") = 1 /\ IndexOf("@", call.value.s) > 3)
            => out.v = StrV(FirstN(call.value.s, 3) \o StarsAt \o AfterAt(call.value.s))
       /\ ~HasChar(call.value.s, "@") => out.v = NullV

\* C4: for email, in both dialects, every non-NULL value holding an '@' is
\* masked to a non-NULL value, however many characters precede the '@'; the
\* result is NULL only for a NULL value or one without '@'.
C4_OnlyAtGuard ==
    Masked({"email"}, DbTypes)
    => (out.v = NullV <=> (IsNull(call.value) \/ ~HasChar(call.value.s, "@")))

\* C5: for email, in both dialects, what follows '***@' in a non-NULL result
\* is the whole text of the value after its first '@'.
C5_WholeDomain ==
    (Masked({"email"}, DbTypes) /\ IsStr(out.v))
    => /\ EndsWith(out.v.s, StarsAt \o AfterAt(call.value.s))
       /\ Len(out.v.s) <= 3 + Len(StarsAt) + Len(AfterAt(call.value.s))

----------------------------------------------------------------------------
(* Properties of the dialect adapter *)

MentionsPostgres(name) == Contains(Lower(name), S_postgres)
MentionsSqlServer(name) ==
    Contains(Lower(name), S_mssql) \/ Contains(Lower(name), S_sqlserver)

\* C6 (as stated): the result is 'postgresql' when the lower-cased name
\* contains 'postgres', 'sqlserver' when it contains 'mssql' or 'sqlserver',
\* 'postgresql' for every other name, and never anything else.
C6_AsStated ==
    (call.fn = "get_database_type" /\ ret.done)
    => /\ ret.v \in {"postgresql", "sqlserver"}
       /\ MentionsPostgres(call.dialect_name) => ret.v = "postgresql"
       /\ MentionsSqlServer(call.dialect_name) => ret.v = "sqlserver"
       /\ (~MentionsPostgres(call.dialect_name) /\ ~MentionsSqlServer(call.dialect_name))
            => ret.v = "postgresql"

\* C6 (amended): get_database_type is a case-insensitive total function of
\* the dialect name with values 'postgresql' and 'sqlserver' only: 'postgresql'
\* when the lower-cased name contains 'postgres'; 'sqlserver' when it contains
\* 'mssql' or 'sqlserver' and does not contain 'postgres'; 'postgresql' for
\* every other name, the empty one included.
C6_DatabaseType ==
    (call.fn = "get_database_type" /\ ret.done)
    => /\ ret.v \in {"postgresql", "sqlserver"}
       /\ MentionsPostgres(call.dialect_name) => ret.v = "postgresql"
       /\ (MentionsSqlServer(call.dialect_name) /\ ~MentionsPostgres(call.dialect_name))
            => ret.v = "sqlserver"
       /\ (~MentionsPostgres(call.dialect_name) /\ ~MentionsSqlServer(call.dialect_name))
            => ret.v = "postgresql"
       /\ ret.v = get_database_type(Lower(call.dialect_name))

C6_Witness ==
    /\ call.fn = "get_database_type"
    /\ call.dialect_name = <<"M", "S", "S", "Q", "L">> \o <<"+">>
    /\ ret.done
    /\ ret.v = "sqlserver"

\* C7: quote_field_name and quote_table_name follow one rule: '[' name ']'
\* for dialect 'sqlserver', '"' name '"' for any other dialect; the name is
\* copied verbatim, so the result is 2 characters longer than the name.
C7_Quoting ==
    (call.fn \in {"quote_field_name", "quote_table_name"} /\ ret.done)
    => /\ ret.v = IF call.db_type = "sqlserver"
                  THEN <<"[">> \o call.name \o <<"]">>
                  ELSE <<"\"">> \o call.name \o <<"\"">>
       /\ Len(ret.v) = Len(call.name) + 2

C7_Witness ==
    /\ call.fn = "quote_table_name"
    /\ call.db_type = "sqlserver"
    /\ call.name = <<"a", "]", "a">>
    /\ ret.done
    /\ ret.v = <<"[", "a", "]", "a", "]">>

\* ---- claims about unrecognised mask patterns ----

IsSqlExpression(v) == "op" \in DOMAIN v

\* C11: a call of get_masked_field_sql with a mask pattern outside name,
\* email, phone, id ends in an error raised to the caller: it never returns
\* a SQL expression for that pattern.
C11_UnknownPatternRejected ==
    (/\ call.fn = "get_masked_field_sql"
     /\ call.mask_pattern \notin MaskPatterns
     /\ ret.done)
    => ~IsSqlExpression(ret.v)

\* ---- claims comparing the two dialects ----

OtherDialect(dbt) == IF dbt = "postgresql" THEN "sqlserver" ELSE "postgresql"

\* the values the two dialects are to agree on: NULL, any value under the
\* email pattern, and under name / phone / id a value at least as long as
\* the pattern's reveal window
InAgreedDomain(pattern, value) ==
    \/ IsNull(value)
    \/ pattern = "email"
    \/ IsStr(value) /\ Len(value.s) >= Reveal(pattern)

\* C12: for the same field and pattern the postgresql and the sqlserver
\* expressions are different texts, yet on every value that is NULL, or any
\* email value, or a name / phone / id value at least as long as the reveal
\* window, the result one dialect's expression computes is the result the
\* other dialect's expression computes.
C12_DialectsAgree ==
    (/\ Masked(MaskPatterns, DbTypes)
     /\ InAgreedDomain(call.mask_pattern, call.value))
    => /\ ret.v # get_masked_field_sql(call.field_name, call.mask_pattern,
                                       OtherDialect(call.db_type))
       /\ out.v = Eval(get_masked_field_sql(call.field_name, call.mask_pattern,
                                            OtherDialect(call.db_type)),
                       [c \in {call.field_name} |-> call.value])

\* the same statement restricted to name, phone and id (not a claim of its
\* own: it locates the disagreement in the email pattern)
DialectsAgreeOutsideEmail ==
    (/\ Masked({"name", "phone", "id"}, DbTypes)
     /\ InAgreedDomain(call.mask_pattern, call.value))
    => /\ ret.v # get_masked_field_sql(call.field_name, call.mask_pattern,
                                       OtherDialect(call.db_type))
       /\ out.v = Eval(get_masked_field_sql(call.field_name, call.mask_pattern,
                                            OtherDialect(call.db_type)),
                       [c \in {call.field_name} |-> call.value])

\* ---- claims about the purity of the statement construction ----

\* expression e with every reference to the quoted column q1 replaced by a
\* reference to q2
RECURSIVE SubstCol(_, _, _)
SubstCol(e, q1, q2) ==
    IF e.op = "col"
    THEN IF e.q = q1 THEN Col(q2) ELSE e
    ELSE IF "args" \in DOMAIN e
         THEN [e EXCEPT !.args = [i \in DOMAIN e.args |-> SubstCol(e.args[i], q1, q2)]]
         ELSE e

MaskedFields ==
    {S_firstname, S_lastname, S_email, S_phone, S_primaryaddressid, S_billingaddressid}

\* C13: when the dialect has been resolved, for every pattern and every two field
\* names the masking expression of the first field with its quoted
\* identifier replaced by the second field's quoted identifier is the masking
\* expression of the second field (so in the built statement the firstname
\* item maps onto the lastname item, the primaryaddressid item onto the
\* billingaddressid item); and the statement an invocation builds is the
\* statement every earlier invocation on the same table names and dialect
\* executed.
C13_PureGeneration ==
    /\ pc = "build" =>
          \A p \in MaskPatterns : \A f1, f2 \in MaskedFields :
              SubstCol(get_masked_field_sql(f1, p, db_type),
                       quote_field_name(f1, db_type), quote_field_name(f2, db_type))
                 = get_masked_field_sql(f2, p, db_type)
    /\ StatementBuilt =>
          /\ SubstCol(insert_query.select[2].expr, insert_query.columns[2],
                      insert_query.columns[3]) = insert_query.select[3].expr
          /\ SubstCol(insert_query.select[7].expr, insert_query.columns[7],
                      insert_query.columns[8]) = insert_query.select[8].expr
          /\ \A i \in 1..Len(conn.executed) : conn.executed[i] = insert_query

C13_Witness ==
    /\ runs = 2
    /\ pc = "execute"
    /\ Len(conn.executed) = 1
    /\ conn.executed[1] = insert_query
    /\ insert_query.select[2].expr # insert_query.select[3].expr

\* ---- claims about the use of the connection ----

InvocationRunning == pc \in {"read_context", "detect", "build", "execute"}
InvocationEnded == pc \in {"returned", "raised"}

\* C14: every invocation executes exactly one statement on the connection:
\* while an invocation has not yet reached conn.execute (context read,
\* dialect resolved, statement built) the connection has executed only the
\* statements of the earlier invocations, and when it has ended, returning or
\* raising, the connection has executed exactly one more, which is the whole
\* statement the invocation built for the resolved dialect.
C14_ExactlyOneExecution ==
    /\ pc = "idle" => Len(conn.executed) = 0
    /\ InvocationRunning => Len(conn.executed) = runs - 1
    /\ InvocationEnded =>
          /\ Len(conn.executed) = runs
          /\ db_type \in DbTypes
          /\ DOMAIN insert_query = {"insert_into", "columns", "select", "from"}
          /\ conn.executed[runs] = insert_query

C14_Witness ==
    /\ pc = "raised"
    /\ runs = 2
    /\ Len(conn.executed) = 2
    /\ conn.executed[2] = insert_query

\* the last element of a non-empty sequence
Last(s) == s[Len(s)]

\* the driver raises: the step in which the connection records an error
DriverRaises == Len(conn'.errors) > Len(conn.errors)

\* C15: when the database raises during the execution, executeTransformer
\* ends in that step by raising: the caller gets one failure, which is the
\* error the driver raised, no success and no row count is reported, the
\* statement has been executed once and is not executed again, and no row
\* has been written to any table; after the failure nothing happens until
\* the caller invokes executeTransformer again.
C15_FailurePropagated ==
    [][/\ DriverRaises =>
            /\ pc = "execute"
            /\ pc' = "raised"
            /\ Len(conn'.errors) = Len(conn.errors) + 1
            /\ result' = [status |-> "raised", error |-> Last(conn'.errors)]
            /\ conn'.executed = Append(conn.executed, insert_query)
            /\ database' = database
       /\ pc = "raised" =>
            /\ pc' = "read_context"
            /\ runs' = runs + 1
            /\ conn' = conn
            /\ database' = database]_vars

C15_Witness ==
    /\ pc = "raised"
    /\ result = [status |-> "raised", error |-> "IntegrityError"]
    /\ Last(conn.errors) = "IntegrityError"
    /\ Alice \in BagToSet(SourceRows)
    /\ DestRows = EmptyBag

\* C16 as stated: no step of executeTransformer changes whether the
\* connection has a transaction in progress or whether it is closed.
C16_AsStated ==
    [][/\ conn'.in_transaction = conn.in_transaction
       /\ conn'.closed = conn.closed]_vars

\* C16: executeTransformer never commits, rolls back or closes: a
\* transaction in progress stays in progress and the connection stays open.
\* The connection changes only in the step that executes the one statement;
\* that step adds the statement to what the connection executed and, when no
\* transaction was in progress, leaves the connection with the transaction
\* the execution began implicitly, still open.
C16_TransactionLeftToCaller ==
    [][/\ conn'.closed = conn.closed
       /\ conn.in_transaction => conn'.in_transaction
       /\ conn'.dialect_name = conn.dialect_name
       /\ conn'.engine = conn.engine
       /\ conn' # conn =>
            /\ pc = "execute"
            /\ conn'.executed = Append(conn.executed, insert_query)
            /\ conn'.in_transaction]_vars

C16_Witness ==
    /\ pc = "returned"
    /\ runs = 1
    /\ conn.in_transaction
    /\ ~conn.closed
    /\ Len(conn.executed) = 1
    /\ DestRows # EmptyBag

\* ---- claims about what executeTransformer hands back ----

\* C17: when executeTransformer has returned, the value its caller received
\* is the affected-row count the engine reported for the statement.
C17_ReturnsRowCount ==
    pc = "returned" => result.value = IntV(result.printed)

\* ---- claims about concurrent invocations ----

\* the statement invocation i builds when it runs alone
StatementAlone(i) ==
    InsertQuery(inv[i].context.input, inv[i].context.output,
                get_database_type(inv[i].conn.dialect_name))

\* C18: under every interleaving of the invocations, each invocation
\* resolves the dialect of its own connection, builds the statement it
\* builds when it runs alone, and its connection has executed nothing before
\* its execute step and exactly that one statement after it; and a step of
\* one invocation changes nothing of any other invocation (its connection,
\* its database, its locals).
C18_NoInterference ==
    /\ [](\A i \in Invocations :
            /\ inv[i].pc \in {"build", "execute", "returned", "raised"}
                  => inv[i].db_type = get_database_type(inv[i].conn.dialect_name)
            /\ inv[i].pc \in {"execute", "returned", "raised"}
                  => inv[i].insert_query = StatementAlone(i)
            /\ inv[i].pc \in {"read_context", "detect", "build", "execute"}
                  => inv[i].conn.executed = <<>>
            /\ inv[i].pc \in {"returned", "raised"}
                  => inv[i].conn.executed = <<StatementAlone(i)>>)
    /\ [][\A i, j \in Invocations :
            (inv'[i] # inv[i] /\ j # i) => inv'[j] = inv[j]]_vars

C18_Witness ==
    /\ inv[1].pc = "returned"
    /\ inv[2].pc = "raised"
    /\ inv[1].db_type = "sqlserver"
    /\ inv[2].db_type = "postgresql"
    /\ inv[1].conn.executed = <<inv[1].insert_query>>
    /\ inv[2].conn.executed = <<inv[2].insert_query>>
    /\ inv[1].insert_query # inv[2].insert_query

\* ---- claims about the transform of each column ----

\* the transform of each of the eight columns: "copy" or a mask pattern
ColumnTransform ==
    (S_id :> "copy") @@ (S_firstname :> "name") @@ (S_lastname :> "name") @@
    (S_dob :> "copy") @@ (S_email :> "email") @@ (S_phone :> "phone") @@
    (S_primaryaddressid :> "id") @@ (S_billingaddressid :> "id")

\* the column-wise image of source row r under these transforms in dialect dbt
Image(r, dbt) ==
    [c \in DOMAIN ColumnTransform |->
        IF ColumnTransform[c] = "copy"
        THEN r[c]
        ELSE Eval(get_masked_field_sql(c, ColumnTransform[c], dbt), r)]

S_alice_masked == <<"*", "*", "*", "c", "e">>
S_alice_email_masked ==
    <<"a", "l", "i", "*", "*", "*", "@", "c", "o", "m", "p", "a", "n", "y", ".", "c", "o", "m">>

\* C20: a successful execution inserts exactly the column-wise images of the
\* source rows, where id and dob are copied, firstname and lastname get the
\* name pattern, email the email pattern, phone the phone pattern and
\* primaryaddressid and billingaddressid the id pattern; the row of alice
\* gets the firstname '***ce' and the email 'ali***@company.com'.
C20_ColumnTransforms ==
    [][Executed =>
        LET inserted == DestRows' (-) DestRows
        IN  /\ BagToSet(inserted) = {Image(r, db_type) : r \in BagToSet(SourceRows)}
            /\ BagCardinality(inserted) = BagCardinality(SourceRows)
            /\ \A d \in BagToSet(inserted) :
                  d[S_id] = Alice[S_id] =>
                     /\ d[S_firstname] = StrV(S_alice_masked)
                     /\ d[S_email] = StrV(S_alice_email_masked)
                     /\ d[S_dob] = Alice[S_dob]]_vars

C20_Witness ==
    /\ pc = "returned"
    /\ db_type = "postgresql"
    /\ SourceRows = SetToBag({Alice, Odd})
    /\ Image(Alice, db_type) \in BagToSet(DestRows)
    /\ Image(Odd, db_type) \in BagToSet(DestRows)
    /\ Image(Alice, db_type)[S_firstname] = StrV(S_alice_masked)

\* ---- claims about values shorter than the reveal window ----

\* C21: for name, phone and id, a non-NULL value shorter than the reveal
\* window (the empty string included) is masked to a string, never to NULL
\* and never to an error: on sqlserver to the prefix followed by the whole
\* value, on postgresql to the prefix followed by the whole value or by
\* nothing.
C21_ShortValues ==
    (/\ Masked({"name", "phone", "id"}, DbTypes)
     /\ IsStr(call.value)
     /\ Len(call.value.s) < Reveal(call.mask_pattern))
    => /\ IsStr(out.v)
       /\ call.db_type = "sqlserver"
             => out.v = StrV(Prefix(call.mask_pattern) \o call.value.s)
       /\ call.db_type = "postgresql"
             => out.v \in {StrV(Prefix(call.mask_pattern) \o call.value.s),
                           StrV(Prefix(call.mask_pattern))}

C21_Witness ==
    /\ Masked({"phone"}, {"postgresql"})
    /\ call.value = StrV(<<"a", "b", " ">>)
    /\ out.v = StrV(PhoneStars \o <<"a", "b", " ">>)

\* ---- claims about the shape of a masked email ----

\* the text of s before its first '@'
LocalPart(s) == SubSeq(s, 1, IndexOf("@", s) - 1)

\* C22: for email, in both dialects, every non-NULL result is p, then '***@',
\* then a domain text, where p is the first 3 characters of the local part
\* of the value (the text before its first '@'): p holds no '@', so no '@'
\* stands before the '***' of the result.
C22_EmailWellFormed ==
    (Masked({"email"}, DbTypes) /\ ~IsNull(out.v))
    => /\ IsStr(out.v)
       /\ LET p == FirstN(LocalPart(call.value.s), 3)
          IN  /\ ~HasChar(p, "@")
              /\ FirstN(out.v.s, Len(p) + 4) = p \o StarsAt
       /\ ~HasChar(FirstN(out.v.s, IndexOf("*", out.v.s)), "@")

\* ---- claims about the dialect of a statement ----

Bracketed(q) == Len(q) >= 2 /\ q[1] = "[" /\ q[Len(q)] = "]"
DoubleQuoted(q) == Len(q) >= 2 /\ q[1] = "\"" /\ q[Len(q)] = "\""

\* the syntax both dialects share, and the functions and the concatenation
\* operator the claim names for each dialect
CommonSyntax == {"CASE", "IS NOT NULL", "AND", "LIKE", ">", "-"}
SqlServerVocabulary == {"RIGHT", "CHARINDEX", "LEFT", "LEN", "+"}
PostgresVocabulary == {"SUBSTRING2", "SUBSTRING3", "LENGTH", "SPLIT_PART", "||"}

\* the dialect of the built statement is the one resolved from the
\* connection, and a dialect string other than 'sqlserver' gives the
\* postgresql quoting and the postgresql expression
ResolvedOnceWithFallback ==
    /\ StatementBuilt =>
          /\ db_type = get_database_type(conn.dialect_name)
          /\ insert_query = InsertQuery(context.input, context.output, db_type)
    /\ pc = "build" =>
          \A d \in DbTypeArgs \ {"sqlserver"} : \A f \in MaskedFields :
              /\ quote_field_name(f, d) = <<"\"">> \o f \o <<"\"">>
              /\ \A p \in MaskPatterns :
                    /\ get_masked_field_sql(f, p, d) = get_masked_field_sql(f, p, "postgresql")
                    /\ ColsIn(get_masked_field_sql(f, p, d)) = {quote_field_name(f, d)}

\* C23 as stated: the masking expressions of a sqlserver statement use, beyond
\* the shared syntax, only RIGHT, CHARINDEX, LEFT, LEN and '+', those of any
\* other statement only SUBSTRING, LENGTH, SPLIT_PART and '||'.
C23_AsStated ==
    /\ ResolvedOnceWithFallback
    /\ StatementBuilt =>
          IF db_type = "sqlserver"
          THEN /\ \A q \in StatementIdentifiers(insert_query) : Bracketed(q)
               /\ StatementOps(insert_query) \ CommonSyntax \subseteq SqlServerVocabulary
          ELSE /\ \A q \in StatementIdentifiers(insert_query) : DoubleQuoted(q)
               /\ StatementOps(insert_query) \ CommonSyntax \subseteq PostgresVocabulary

\* C23: the dialect is resolved once from the connection and the statement
\* is built for that one value, so it never mixes dialects: a sqlserver
\* statement has every identifier in brackets and its masking expressions
\* use, beyond the shared syntax, only RIGHT, CHARINDEX, LEFT, LEN, the
\* three-argument SUBSTRING and '+' (no LENGTH, SPLIT_PART, two-argument
\* SUBSTRING or '||'); any other statement has every identifier in double
\* quotes and uses only SUBSTRING, LENGTH, SPLIT_PART and '||'; and for a
\* dialect string other than 'sqlserver' quoting and expression are the
\* postgresql ones.
C23_OneDialect ==
    /\ ResolvedOnceWithFallback
    /\ StatementBuilt =>
          IF db_type = "sqlserver"
          THEN /\ \A q \in StatementIdentifiers(insert_query) : Bracketed(q)
               /\ StatementOps(insert_query) \ CommonSyntax
                     \subseteq SqlServerVocabulary \cup {"SUBSTRING3"}
               /\ StatementOps(insert_query)
                     \cap {"SUBSTRING2", "LENGTH", "SPLIT_PART", "||"} = {}
          ELSE /\ \A q \in StatementIdentifiers(insert_query) : DoubleQuoted(q)
               /\ StatementOps(insert_query) \ CommonSyntax \subseteq PostgresVocabulary
               /\ StatementOps(insert_query) \cap SqlServerVocabulary = {}

C23_Witness ==
    /\ pc = "execute"
    /\ conn.dialect_name = S_mssql
    /\ db_type = "sqlserver"
    /\ "SUBSTRING3" \in StatementOps(insert_query)
    /\ "CHARINDEX" \in StatementOps(insert_query)
    /\ Bracketed(insert_query.from)

\* ---- claims about the destination schema ----

NotNullColumns(schema) == {schema[i].name : i \in {j \in 1..Len(schema) : ~schema[j].nullable}}

\* row r has a value in every NOT NULL column of the schema
ConformsNotNull(r, schema) == \A c \in NotNullColumns(schema) : ~IsNull(r[c])

\* C24: the NOT NULL columns of the destination are id, firstname, lastname
\* and dob, and a successful execution over source rows that have these four
\* non-NULL inserts only rows that have them non-NULL (and not an error), in
\* both dialects, the empty string included; a NULL in an inserted row
\* stands in email, phone, primaryaddressid or billingaddressid.
C24_NotNullPreserved ==
    [][(Executed /\ \A r \in BagToSet(SourceRows) : ConformsNotNull(r, InputCustomersSchema))
       => /\ NotNullColumns(OutputCustomersSchema) = {S_id, S_firstname, S_lastname, S_dob}
          /\ \A d \in BagToSet(DestRows' (-) DestRows) :
                /\ ConformsNotNull(d, OutputCustomersSchema)
                /\ \A c \in DOMAIN d :
                      /\ ~IsErr(d[c])
                      /\ IsNull(d[c]) => c \in {S_email, S_phone, S_primaryaddressid,
                                                S_billingaddressid}]_vars

C24_Witness ==
    /\ pc = "returned"
    /\ db_type = "sqlserver"
    /\ SourceRows = SetToBag({David, Odd})
    /\ \E d \in BagToSet(DestRows) :
          /\ d[S_id] = Odd[S_id]
          /\ d[S_lastname] = StrV(Stars)
          /\ IsNull(d[S_billingaddressid])
    /\ \E d \in BagToSet(DestRows) :
          /\ d[S_id] = David[S_id]
          /\ IsNull(d[S_email])
          /\ ~IsNull(d[S_firstname])

\* ---- claims about the width of masked values ----

\* the columns executeTransformer masks with the pattern
ColumnsOf(pattern) == {c \in DOMAIN ColumnTransform : ColumnTransform[c] = pattern}

\* C25: for each of the four patterns and both dialects, a value that fits
\* the source width of a column masked with that pattern (100 for firstname,
\* lastname, email, phone; 20 for primaryaddressid, billingaddressid) is
\* masked to a value that fits the width of the same destination column.
C25_FitsWidth ==
    (Masked(MaskPatterns, DbTypes) /\ IsStr(call.value) /\ IsStr(out.v))
    => \A c \in ColumnsOf(call.mask_pattern) :
          Len(call.value.s) <= WidthOf(InputCustomersSchema, c)
             => Len(out.v.s) <= WidthOf(OutputCustomersSchema, c)

\* ---- claims about what a run leaves in the tables ----

\* the successful runs so far: executions that did not raise
SuccessfulRuns == Len(conn.executed) - Len(conn.errors)

\* k copies of the masked image of every source row
MaskedCopies(k) ==
    LET images == {Image(r, get_database_type(conn.dialect_name)) : r \in BagToSet(SourceRows)}
    IN  IF k = 0 THEN EmptyBag ELSE [d \in images |-> k]

\* C26: no step changes the source table or any table but the destination,
\* and no step removes or changes a row the destination holds: the
\* destination only grows, and only in a successful execution; so whenever
\* no run is under way, after k successful runs, the destination holds a destination it can have started
\* with plus k copies of the masked image of every source row.
C26_OnlyAdds ==
    /\ [](pc \in {"idle", "returned", "raised"}
            => \E before \in DestTables : DestRows = before (+) MaskedCopies(SuccessfulRuns))
    /\ [][/\ SourceRows' = SourceRows
          /\ DOMAIN database' = DOMAIN database
          /\ DestRows \sqsubseteq DestRows'
          /\ ~Executed => database' = database
          /\ Executed => BagCardinality(DestRows') =
                            BagCardinality(DestRows) + BagCardinality(SourceRows)]_vars

C26_Witness ==
    /\ pc = "returned"
    /\ runs = 2
    /\ SuccessfulRuns = 2
    /\ SourceRows = SetToBag({Alice, David})
    /\ CopiesIn(Old, DestRows) = 1
    /\ CopiesIn(Image(Alice, db_type), DestRows) = 2
    /\ BagCardinality(DestRows) = 5

====
